---- MODULE Spec2Model ----
(***************************************************************************)
(* A model of src/main.py (ClickUpExporter): the field value normalizer    *)
(* _get_field_value, the row builder _process_task and the orchestrator    *)
(* export_to_excel.                                                        *)
(*                                                                         *)
(* Python values are tagged records: k names the Python type.  A dict is   *)
(* a function from its keys (strings) to values, a list a sequence.  An    *)
(* uncaught exception is the outcome Raise, which is no Python value.      *)
(***************************************************************************)
EXTENDS Integers, Sequences, FiniteSets, TLC

VARIABLES
  nf_field,     \* SpecNorm: the field record handed to _get_field_value
  nf_result,    \* SpecNorm: what the call gave (Pending before the call)
  pt_task,      \* SpecRow: the task handed to _process_task
  pt_columns,   \* SpecRow: custom_field_names, its keys in insertion order
  pt_result,    \* SpecRow: what the call gave (Pending before the call)
  list_ids,     \* SpecExport: self.list_ids, the sheet names in dict order
  pc,           \* SpecExport: position in export_to_excel
  li,           \* SpecExport: index of the list the loop is at
  fetched,      \* SpecExport: what _get_tasks_from_list returned, per list so far
  ti,           \* SpecExport: number of tasks of the current list already appended
  custom_field_names, \* SpecExport: the column set of the current list
  workbook,     \* SpecExport: the sheets, each [title, rows]
  save_called,  \* SpecExport: workbook.save was reached
  saved         \* SpecExport: the workbook written to the file (Pending before)

norm_vars == <<nf_field, nf_result>>
row_vars == <<pt_task, pt_columns, pt_result>>
export_vars == <<list_ids, pc, li, fetched, ti, custom_field_names, workbook,
                 save_called, saved>>
vars == <<nf_field, nf_result, pt_task, pt_columns, pt_result, list_ids, pc, li,
          fetched, ti, custom_field_names, workbook, save_called, saved>>

-----------------------------------------------------------------------------
(* Python values *)

PyNone == [k |-> "none"]
PyStr(s) == [k |-> "str", s |-> s]
PyInt(n) == [k |-> "int", n |-> n]
PyBool(b) == [k |-> "bool", b |-> b]
PyDict(d) == [k |-> "dict", d |-> d]
PyList(items) == [k |-> "list", items |-> items]
EmptyDict == PyDict(<<>>)
Raise == [k |-> "raise"]
Pending == [k |-> "pending"]

\* dict.get(key, default)
Get(d, key, default) == IF key \in DOMAIN d THEN d[key] ELSE default

\* bool is a subclass of int: True == 1, False == 0
NumOf(v) == IF v.k = "bool" THEN (IF v.b THEN 1 ELSE 0) ELSE v.n

\* a == b
PyEq(a, b) ==
  IF a.k \in {"int", "bool"} /\ b.k \in {"int", "bool"}
  THEN NumOf(a) = NumOf(b)
  ELSE a = b

\* bool(v)
Truthy(v) ==
  CASE v.k = "none" -> FALSE
    [] v.k = "str" -> v.s # ""
    [] v.k = "int" -> v.n # 0
    [] v.k = "bool" -> v.b
    [] v.k = "dict" -> DOMAIN v.d # {}
    [] v.k = "list" -> Len(v.items) > 0

\* The order in which a dict's keys are rendered by repr (the model's dicts keep
\* no insertion order).
KeyOrder == <<"id", "name", "username", "text">>

RECURSIVE Repr(_)
RECURSIVE ReprItems(_, _)
RECURSIVE ReprKeys(_, _, _)
ReprItems(items, i) ==
  IF i > Len(items) THEN ""
  ELSE (IF i > 1 THEN ", " ELSE "") \o Repr(items[i]) \o ReprItems(items, i + 1)
ReprKeys(d, i, first) ==
  IF i > Len(KeyOrder) THEN ""
  ELSE IF KeyOrder[i] \in DOMAIN d
       THEN (IF first THEN "" ELSE ", ") \o "'" \o KeyOrder[i] \o "': "
            \o Repr(d[KeyOrder[i]]) \o ReprKeys(d, i + 1, FALSE)
       ELSE ReprKeys(d, i + 1, first)
\* repr(v)
Repr(v) ==
  CASE v.k = "none" -> "None"
    [] v.k = "str" -> "'" \o v.s \o "'"
    [] v.k = "int" -> ToString(v.n)
    [] v.k = "bool" -> (IF v.b THEN "True" ELSE "False")
    [] v.k = "dict" -> "{" \o ReprKeys(v.d, 1, TRUE) \o "}"
    [] v.k = "list" -> "[" \o ReprItems(v.items, 1) \o "]"

\* str(v)
Str(v) == IF v.k = "str" THEN v.s ELSE Repr(v)

\* The digits after the point of r / 1000 for 0 <= r < 1000, as repr(float)
\* gives them: no trailing zero, at least one digit.
Frac(r) ==
  IF r = 0 THEN "0"
  ELSE IF r % 100 = 0 THEN ToString(r \div 100)
  ELSE IF r % 10 = 0
       THEN (IF r < 100 THEN "0" ELSE "") \o ToString(r \div 10)
       ELSE (IF r < 10 THEN "00" ELSE IF r < 100 THEN "0" ELSE "") \o ToString(r)

\* str(n / 1000) for an int n (true division gives a float)
MsToSeconds(n) ==
  IF n < 0
  THEN "-" \o ToString((0 - n) \div 1000) \o "." \o Frac((0 - n) % 1000)
  ELSE ToString(n \div 1000) \o "." \o Frac(n % 1000)

RECURSIVE JoinFrom(_, _, _)
JoinFrom(sep, items, i) ==
  IF i > Len(items) THEN ""
  ELSE (IF i > 1 THEN sep ELSE "") \o items[i].s \o JoinFrom(sep, items, i + 1)
\* sep.join(names): a TypeError when an item is no str
Join(sep, names) ==
  IF \E i \in 1..Len(names.items) : names.items[i].k # "str"
  THEN Raise
  ELSE PyStr(JoinFrom(sep, names.items, 1))

-----------------------------------------------------------------------------
(* _get_field_value *)

TextTypes == {"text", "short_text", "email", "phone", "url"}
NumberTypes == {"number", "rating", "auto_increment"}
LabelTypes == {"labels", "multi_select"}
DateTypes == {"date", "time"}
AuditTypes == {"created_by", "updated_by"}

\* field_type in [...] / field_type == "...": the tag is one of these strings
TypeIn(field_type, names) == field_type.k = "str" /\ field_type.s \in names

\* field.get("type_config", {}).get("options", []): an AttributeError when
\* type_config is present and no dict
OptionsOf(field) ==
  LET type_config == Get(field, "type_config", EmptyDict)
  IN IF type_config.k # "dict" THEN Raise
     ELSE Get(type_config.d, "options", PyList(<<>>))

\* What "for option in options" iterates over: a list's items, a dict's keys; a
\* TypeError for None, a number or a bool.  (Options that are a str are not among
\* the inputs.)
IterOf(options) ==
  CASE options.k = "list" -> options
    [] options.k = "dict" ->
         PyList(SelectSeq([i \in 1..Len(KeyOrder) |-> PyStr(KeyOrder[i])],
                          LAMBDA key : key.s \in DOMAIN options.d))
    [] OTHER -> Raise

RECURSIVE DropdownScan(_, _, _)
\* lines 80-84: the first option whose id equals the value gives its name; the
\* raw value when the loop ends.  option.get raises on an option that is no dict.
DropdownScan(options, field_value, i) ==
  IF i > Len(options) THEN field_value
  ELSE IF options[i].k # "dict" THEN Raise
  ELSE IF PyEq(Get(options[i].d, "id", PyNone), field_value)
       THEN Get(options[i].d, "name", PyStr(""))
       ELSE DropdownScan(options, field_value, i + 1)

\* The dropdown lookup with the fallback dropped: "" when no option matches.
DropdownLookupNoFallback(options, field_value) ==
  LET r == DropdownScan(options, field_value, 1)
  IN IF r = field_value THEN PyStr("") ELSE r

\* lines 80-84 on the items the loop iterates over
DropdownLookup(options, field_value) == DropdownScan(options, field_value, 1)

\* lines 76-88
DropdownValue(field, field_value) ==
  IF field_value.k = "str"
  THEN LET options == OptionsOf(field)
       IN IF options = Raise THEN Raise
          ELSE IF IterOf(options) = Raise THEN Raise
          ELSE DropdownLookup(IterOf(options).items, field_value)
  ELSE IF field_value.k = "dict"
       THEN Get(field_value.d, "name", PyStr(""))
       ELSE PyStr(Str(field_value))

RECURSIVE OptionScan(_, _, _)
\* lines 99-101: every option whose id equals the item appends its name (the
\* loop has no break).  The names appended, or Raise.
OptionScan(options, item, i) ==
  IF i > Len(options) THEN PyList(<<>>)
  ELSE IF options[i].k # "dict" THEN Raise
  ELSE LET rest == OptionScan(options, item, i + 1)
       IN IF rest = Raise THEN Raise
          ELSE IF PyEq(Get(options[i].d, "id", PyNone), item)
               THEN PyList(<<Get(options[i].d, "name", PyStr(""))>> \o rest.items)
               ELSE rest

\* The inner loop stopping at the first matching option.
OptionNamesFirstOnly(options, item) ==
  LET r == IF IterOf(options) = Raise THEN Raise
           ELSE OptionScan(IterOf(options).items, item, 1)
  IN IF r = Raise THEN Raise
     ELSE IF Len(r.items) > 1 THEN PyList(<<r.items[1]>>) ELSE r

\* lines 98-101 for one item
OptionNames(options, item) ==
  IF IterOf(options) = Raise THEN Raise
  ELSE OptionScan(IterOf(options).items, item, 1)

RECURSIVE LabelScan(_, _, _)
\* lines 94-101: the list names after the loop over the items, or Raise
LabelScan(items, options, i) ==
  IF i > Len(items) THEN PyList(<<>>)
  ELSE LET item == items[i]
           here == IF item.k = "dict" /\ "name" \in DOMAIN item.d
                   THEN PyList(<<item.d["name"]>>)
                   ELSE OptionNames(options, item)
           rest == IF here = Raise THEN Raise ELSE LabelScan(items, options, i + 1)
       IN IF here = Raise \/ rest = Raise THEN Raise
          ELSE PyList(here.items \o rest.items)

\* lines 92-101: names, for a field whose value is a list
LabelNames(field) ==
  LET options == OptionsOf(field)
  IN IF options = Raise THEN Raise
     ELSE LabelScan(Get(field, "value", PyNone).items, options, 1)

\* lines 90-103
LabelsValue(field, field_value) ==
  IF field_value.k = "list"
  THEN IF LabelNames(field) = Raise THEN Raise
       ELSE Join(", ", LabelNames(field))
  ELSE PyStr("")

\* lines 105-106: field_value / 1000 is a TypeError unless the value is a number
DateValue(field_value) ==
  IF field_value.k \in {"int", "bool"}
  THEN PyStr(MsToSeconds(NumOf(field_value)))
  ELSE Raise

\* lines 108-112
UsersValue(field_value) ==
  IF field_value.k = "list"
  THEN LET users == SelectSeq(field_value.items, LAMBDA user : user.k = "dict")
       IN Join(", ", PyList([i \in 1..Len(users) |->
                               Get(users[i].d, "username", PyStr(""))]))
  ELSE PyStr("")

\* The relationship filter as "if linked_task is not None".
RelationshipKeptNotNone(linked_task) == linked_task # PyNone

\* line 121: "if linked_task"
RelationshipKept(linked_task) == Truthy(linked_task)

\* lines 119-122: linked_task.get raises on a kept entry that is no dict
RelationshipValue(field_value) ==
  IF field_value.k = "list"
  THEN LET kept == SelectSeq(field_value.items, RelationshipKept)
       IN IF \E i \in 1..Len(kept) : kept[i].k # "dict" THEN Raise
          ELSE Join(", ", PyList([i \in 1..Len(kept) |->
                                    Get(kept[i].d, "name", PyStr(""))]))
  ELSE PyStr("")

\* lines 114-117, 124-127, 129-132: field_value.get(key, "") of a dict, else ""
DictKeyValue(field_value, key) ==
  IF field_value.k = "dict" THEN Get(field_value.d, key, PyStr("")) ELSE PyStr("")

\* lines 67-135: the dispatch on field_type
Dispatch(field) ==
  LET field_type == Get(field, "type", PyNone)
      field_value == Get(field, "value", PyNone)
  IN CASE TypeIn(field_type, TextTypes) -> PyStr(Str(field_value))
       [] TypeIn(field_type, NumberTypes) -> PyStr(Str(field_value))
       [] TypeIn(field_type, {"checkbox"}) ->
            PyStr(IF Truthy(field_value) THEN "Yes" ELSE "No")
       [] TypeIn(field_type, {"dropdown"}) -> DropdownValue(field, field_value)
       [] TypeIn(field_type, LabelTypes) -> LabelsValue(field, field_value)
       [] TypeIn(field_type, DateTypes) -> DateValue(field_value)
       [] TypeIn(field_type, {"users"}) -> UsersValue(field_value)
       [] TypeIn(field_type, {"location"}) -> DictKeyValue(field_value, "name")
       [] TypeIn(field_type, {"relationship"}) -> RelationshipValue(field_value)
       [] TypeIn(field_type, {"formula"}) -> DictKeyValue(field_value, "text")
       [] TypeIn(field_type, AuditTypes) -> DictKeyValue(field_value, "username")
       [] OTHER -> PyStr(Str(field_value))

\* _get_field_value with the None check after the dispatch.
GetFieldValueDispatchFirst(field) == Dispatch(field)

\* lines 50-135
GetFieldValue(field) ==
  IF Get(field, "value", PyNone) = PyNone THEN PyStr("") ELSE Dispatch(field)

-----------------------------------------------------------------------------
(* The inputs of _get_field_value *)

MaxItems == 2
MaxOptions == 2

\* A key the dict does not carry (used only to build the inputs).
Absent == [k |-> "absent"]

SeqsUpTo(S, n) == UNION {[1..m -> S] : m \in 0..n}

\* A dict with the keys of the record all whose value is not Absent.
DictOf(all) == [key \in {x \in DOMAIN all : all[x] # Absent} |-> all[key]]

Field(name, type, value, type_config) ==
  DictOf([name |-> name, type |-> type, value |-> value,
          type_config |-> type_config])

Option(id, name) == PyDict(DictOf([id |-> id, name |-> name]))

\* Options: two of the same id, one of another id, one without a name, and an
\* entry that is no object.
OptionPool ==
  {Option(PyStr("o1"), PyStr("High")), Option(PyStr("o1"), PyStr("Low")),
   Option(PyStr("o2"), PyStr("Med")), Option(PyStr("o2"), Absent), PyStr("bad")}

\* type_config: absent, null, without options, with null options, with options
TypeConfigs ==
  {Absent, PyNone, EmptyDict, PyDict([options |-> PyNone])}
    \cup {PyDict([options |-> PyList(s)]) : s \in SeqsUpTo(OptionPool, MaxOptions)}

\* The entries of a list value: null, a bare identifier, and objects with and
\* without a name.
Items ==
  {PyNone, PyStr("o1"), EmptyDict, PyDict([name |-> PyStr("N1")]),
   PyDict([id |-> PyStr("o2")])}

Scalars ==
  {PyStr(""), PyStr("o1"), PyStr("o2"), PyStr("o3"), PyStr("1700000000000"),
   PyInt(0), PyInt(1500), PyInt(1700000120), PyBool(TRUE), PyBool(FALSE)}

Dicts ==
  {EmptyDict, PyDict([name |-> PyStr("N1")]), PyDict([id |-> PyStr("o2")]),
   PyDict([username |-> PyStr("u1")]), PyDict([text |-> PyStr("=1+1")])}

Lists == {PyList(s) : s \in SeqsUpTo(Items, MaxItems)}

\* value: absent, null, or a scalar, an object or a list
Values == {Absent, PyNone} \cup Scalars \cup Dicts \cup Lists

OptionTypes == {"dropdown"} \cup LabelTypes
KnownTypes ==
  TextTypes \cup NumberTypes \cup {"checkbox"} \cup OptionTypes \cup DateTypes
    \cup {"users", "location", "relationship", "formula"} \cup AuditTypes

\* type: a known tag, an unknown one, a missing one
TypeTags == {PyStr(t) : t \in KnownTypes \cup {"tasks"}} \cup {Absent}

\* The field records: type_config varies for the types whose branch reads it.
NormFields ==
  {Field(PyStr("A"), PyStr(t), v, tc) :
     t \in OptionTypes, v \in Values, tc \in TypeConfigs}
    \cup {Field(PyStr("A"), t, v, Absent) : t \in TypeTags, v \in Values}

-----------------------------------------------------------------------------
(* SpecNorm: one call of _get_field_value on any field record *)

RowIdle == pt_task = Pending /\ pt_columns = <<>> /\ pt_result = Pending
ExportIdle ==
  /\ list_ids = <<>> /\ pc = "idle" /\ li = 0 /\ fetched = <<>> /\ ti = 0
  /\ custom_field_names = <<>> /\ workbook = <<>> /\ save_called = FALSE
  /\ saved = Pending
NormIdle == nf_field = Pending /\ nf_result = Pending

InitNorm ==
  /\ nf_field \in NormFields
  /\ nf_result = Pending
  /\ RowIdle /\ ExportIdle

Normalize ==
  /\ nf_field # Pending /\ nf_result = Pending
  /\ nf_result' = GetFieldValue(nf_field)
  /\ UNCHANGED <<nf_field, row_vars, export_vars>>

NextNorm == Normalize

SpecNorm == InitNorm /\ [][NextNorm]_vars

-----------------------------------------------------------------------------
(* Claims about _get_field_value, checked under SpecNorm *)

NormDone == nf_result # Pending
NormType == Get(nf_field, "type", PyNone)
NormValue == Get(nf_field, "value", PyNone)

\* type_config is absent or an object whose options are absent or a sequence of
\* option objects
OptionsWellFormed ==
  LET type_config == Get(nf_field, "type_config", EmptyDict)
  IN /\ type_config.k = "dict"
     /\ LET options == Get(type_config.d, "options", PyList(<<>>))
        IN /\ options.k = "list"
           /\ \A i \in 1..Len(options.items) : options.items[i].k = "dict"

\* the options of a field with well-formed options (none when they are absent)
NormOptions ==
  Get(Get(nf_field, "type_config", EmptyDict).d, "options", PyList(<<>>)).items

OptionId(option) == Get(option.d, "id", PyNone)
\* an option's name; "" for an option that carries none
OptionName(option) == Get(option.d, "name", PyStr(""))

\* C1: _get_field_value is total: for every field record, whatever its type tag
\* and the shape of its value and type_config, the call returns a string and
\* never raises.
C1_AlwaysReturnsString == NormDone => nf_result.k = "str"

\* C2: for every field record whose value is null or absent, _get_field_value
\* returns the empty string, whatever the type tag (known, unknown or missing):
\* the null check comes before the dispatch on the type.
C2_NullValueGivesEmpty ==
  (NormDone /\ NormValue = PyNone) => nf_result = PyStr("")

\* C2 witness: a date field with a null value (the date branch would raise on
\* it) has given "".
C2_Witness ==
  /\ NormDone /\ NormType = PyStr("date")
  /\ "value" \in DOMAIN nf_field /\ nf_field["value"] = PyNone
  /\ nf_result = PyStr("")

\* C6: for a dropdown field whose value is a string identifier: when some option
\* of type_config.options has that id, the result is the name of the first such
\* option ("" when that option carries no name); when none has it, or options are
\* absent, the result is the raw identifier unchanged.
C6_DropdownLookup ==
  (NormDone /\ NormType = PyStr("dropdown") /\ NormValue.k = "str"
    /\ OptionsWellFormed)
  => LET matching == {i \in 1..Len(NormOptions) : OptionId(NormOptions[i]) = NormValue}
     IN IF matching = {}
        THEN nf_result = NormValue
        ELSE \E i \in matching :
               /\ \A j \in matching : i <= j
               /\ nf_result = OptionName(NormOptions[i])

\* C6 witness: two options share the identifier and the first one's name came
\* back.
C6_Witness ==
  /\ NormDone /\ NormType = PyStr("dropdown") /\ NormValue = PyStr("o1")
  /\ OptionsWellFormed
  /\ NormOptions = <<Option(PyStr("o1"), PyStr("High")), Option(PyStr("o1"), PyStr("Low"))>>
  /\ nf_result = PyStr("High")

NamedObject(item) == item.k = "dict" /\ "name" \in DOMAIN item.d

\* The options whose id equals the item, in option order.
MatchingOptions(item) == SelectSeq(NormOptions, LAMBDA option : OptionId(option) = item)

RECURSIVE ClaimedLabelNames(_, _)
\* The names C7 gives the items from the i-th on: an object's name, the name of
\* the option a bare identifier matches, nothing for one that matches none.
ClaimedLabelNames(items, i) ==
  IF i > Len(items) THEN <<>>
  ELSE (IF NamedObject(items[i]) THEN <<items[i].d["name"]>>
        ELSE IF MatchingOptions(items[i]) = <<>> THEN <<>>
        ELSE <<OptionName(MatchingOptions(items[i])[1])>>)
       \o ClaimedLabelNames(items, i + 1)

RECURSIVE AllLabelNames(_, _)
\* As ClaimedLabelNames, with every matching option's name for a bare identifier.
AllLabelNames(items, i) ==
  IF i > Len(items) THEN <<>>
  ELSE (IF NamedObject(items[i]) THEN <<items[i].d["name"]>>
        ELSE [j \in 1..Len(MatchingOptions(items[i])) |->
                OptionName(MatchingOptions(items[i])[j])])
       \o AllLabelNames(items, i + 1)

LabelsCase ==
  /\ NormDone /\ NormType.k = "str" /\ NormType.s \in LabelTypes
  /\ NormValue.k = "list" /\ OptionsWellFormed

\* C7 as stated: for a labels or multi_select field whose value is a sequence,
\* the result is the names joined with ", " in item order, an object with a name
\* giving that name, a bare identifier the name of the option it matches, an
\* unmatched one nothing; so there are never more names than items.
C7_OneNamePerItem ==
  LabelsCase
  => /\ nf_result = Join(", ", PyList(ClaimedLabelNames(NormValue.items, 1)))
     /\ Len(LabelNames(nf_field).items) <= Len(NormValue.items)

\* C7 amended: the result is the names joined with ", " in item order, an object
\* with a name giving that name and any other item the names of all the options
\* whose id equals it, in option order (none when no option matches); there are
\* no more names than items when the option ids are pairwise distinct.
C7_EveryMatchingOption ==
  LabelsCase
  => /\ nf_result = Join(", ", PyList(AllLabelNames(NormValue.items, 1)))
     /\ LabelNames(nf_field).items = AllLabelNames(NormValue.items, 1)
     /\ (\A i, j \in 1..Len(NormOptions) :
           OptionId(NormOptions[i]) = OptionId(NormOptions[j]) => i = j)
        => Len(LabelNames(nf_field).items) <= Len(NormValue.items)

\* C7 witness: a named object and a bare identifier that two options carry: three
\* names for two items.
C7_Witness ==
  /\ LabelsCase
  /\ NormValue.items = <<PyDict([name |-> PyStr("N1")]), PyStr("o1")>>
  /\ NormOptions = <<Option(PyStr("o1"), PyStr("High")), Option(PyStr("o1"), PyStr("Low"))>>
  /\ nf_result = PyStr("N1, High, Low")

RelationshipCase ==
  /\ NormDone /\ NormType = PyStr("relationship") /\ NormValue.k = "list"
  /\ \A i \in 1..Len(NormValue.items) : NormValue.items[i].k \in {"none", "dict"}

EntryNames(entries) ==
  PyList([i \in 1..Len(entries) |-> Get(entries[i].d, "name", PyStr(""))])

\* C9 as stated: for a relationship field whose value is a sequence, exactly the
\* null entries are skipped and every other entry gives one element of the result
\* joined with ", ": its name, or "" when it has no name.
C9_SkipsExactlyNull ==
  RelationshipCase
  => nf_result = Join(", ", EntryNames(SelectSeq(NormValue.items,
                                                 LAMBDA entry : entry # PyNone)))

\* C9 amended: for a relationship field whose value is a sequence of null entries
\* and objects, the null entries and the empty objects are skipped, and every
\* other entry gives one element of the result joined with ", ": its name, or ""
\* when it has no name.
C9_SkipsNullAndEmpty ==
  RelationshipCase
  => nf_result = Join(", ", EntryNames(SelectSeq(NormValue.items,
                        LAMBDA entry : entry # PyNone /\ entry # EmptyDict)))

\* C9 witness: an empty object was skipped and an object without a name gave an
\* empty element.
C9_Witness ==
  /\ RelationshipCase
  /\ NormValue.items = <<EmptyDict, PyDict([id |-> PyStr("o2")])>>
  /\ nf_result = PyStr("")

-----------------------------------------------------------------------------
(* _process_task *)

\* field.get("name") of the i-th custom field
FieldName(fields, i) == Get(fields[i], "name", PyNone)

\* task.get("custom_fields", [])
CustomFields(task) == Get(task, "custom_fields", PyList(<<>>)).items

RECURSIVE FillValues(_, _, _, _)
\* lines 151-154: custom_field_values after the loop over the fields from the
\* i-th on, as the values in column order; Raise when _get_field_value raises.
FillValues(fields, columns, values, i) ==
  IF i > Len(fields) THEN PyList(values)
  ELSE IF \E c \in 1..Len(columns) : columns[c] = FieldName(fields, i)
       THEN LET c == CHOOSE c \in 1..Len(columns) : columns[c] = FieldName(fields, i)
                value == GetFieldValue(fields[i])
            IN IF value = Raise THEN Raise
               ELSE FillValues(fields, columns, [values EXCEPT ![c] = value], i + 1)
       ELSE FillValues(fields, columns, values, i + 1)

\* lines 137-157: the row, or Raise
ProcessTask(task, columns) ==
  LET values == FillValues(CustomFields(task), columns,
                           [c \in 1..Len(columns) |-> PyStr("")], 1)
  IN IF values = Raise THEN Raise
     ELSE PyList(<<Get(task, "name", PyStr(""))>> \o values.items)

-----------------------------------------------------------------------------
(* The inputs of _process_task *)

MaxFields == 2

Task(name, fields) == DictOf([name |-> name, custom_fields |-> PyList(fields)])

WithOptions(options) == PyDict([options |-> PyList(options)])

FieldA == Field(PyStr("A"), PyStr("text"), PyStr("x"), Absent)
FieldA2 == Field(PyStr("A"), PyStr("number"), PyInt(7), Absent)
FieldB ==
  Field(PyStr("B"), PyStr("dropdown"), PyStr("o1"),
        WithOptions(<<Option(PyStr("o1"), PyStr("High"))>>))
FieldC == Field(PyStr("C"), PyStr("checkbox"), PyBool(TRUE), Absent)
\* a date whose value is the timestamp as a string
FieldBDate == Field(PyStr("B"), PyStr("date"), PyStr("1700000000000"), Absent)
\* a field without a name
FieldNoName == Field(Absent, PyStr("text"), PyStr("z"), Absent)

RowFields == {FieldA, FieldA2, FieldB, FieldC, FieldBDate, FieldNoName}

RowTasks ==
  {Task(name, fields) :
     name \in {PyStr("T1"), Absent}, fields \in SeqsUpTo(RowFields, MaxFields)}

ColumnNames == {PyStr("A"), PyStr("B"), PyStr("C"), PyNone}

\* The keys of a dict, in insertion order: no key twice.
ColumnSets ==
  {columns \in SeqsUpTo(ColumnNames, Cardinality(ColumnNames)) :
     \A i, j \in 1..Len(columns) : columns[i] = columns[j] => i = j}

-----------------------------------------------------------------------------
(* SpecRow: one call of _process_task on any task and column set *)

InitRow ==
  /\ pt_task \in RowTasks
  /\ pt_columns \in ColumnSets
  /\ pt_result = Pending
  /\ NormIdle /\ ExportIdle

ProcessTaskCall ==
  /\ pt_task # Pending /\ pt_result = Pending
  /\ pt_result' = ProcessTask(pt_task, pt_columns)
  /\ UNCHANGED <<pt_task, pt_columns, norm_vars, export_vars>>

NextRow == ProcessTaskCall

SpecRow == InitRow /\ [][NextRow]_vars

-----------------------------------------------------------------------------
(* Claims about _process_task, checked under SpecRow *)

\* the places of the task's fields named as the c-th column
FieldsNamed(c) ==
  {i \in 1..Len(CustomFields(pt_task)) :
     FieldName(CustomFields(pt_task), i) = pt_columns[c]}

Last(S) == CHOOSE i \in S : \A j \in S : j <= i

\* C4: _process_task returns, for any task and any column set, the task name
\* followed by one value per column in column-set order: the normalized value of
\* the task's last field of that name when it has one, "" when it has none.
C4_RowAlignedToColumns ==
  pt_result # Pending
  => /\ pt_result.k = "list"
     /\ Len(pt_result.items) = 1 + Len(pt_columns)
     /\ pt_result.items[1] = Get(pt_task, "name", PyStr(""))
     /\ \A c \in 1..Len(pt_columns) :
          pt_result.items[c + 1] =
            IF FieldsNamed(c) = {} THEN PyStr("")
            ELSE GetFieldValue(CustomFields(pt_task)[Last(FieldsNamed(c))])

\* What does hold of _process_task: it raises exactly when _get_field_value
\* raises on a field whose name is a column, and returns the row of C4 otherwise.
RowAlignedUnlessRaise ==
  pt_result # Pending
  => IF \E i \in 1..Len(CustomFields(pt_task)) :
          /\ \E c \in 1..Len(pt_columns) : pt_columns[c] = FieldName(CustomFields(pt_task), i)
          /\ GetFieldValue(CustomFields(pt_task)[i]) = Raise
     THEN pt_result = Raise
     ELSE C4_RowAlignedToColumns

-----------------------------------------------------------------------------
(* export_to_excel *)

\* line 165: Workbook() holds one empty sheet titled "Sheet"
DefaultTitle == "Sheet"
NewWorkbook == <<[title |-> DefaultTitle, rows |-> <<>>]>>

RECURSIVE InsertNames(_, _, _)
\* lines 178-179 for one task: custom_field_names[field.get("name")] = True for
\* the fields from the i-th on; a key already present keeps its place
InsertNames(fields, columns, i) ==
  IF i > Len(fields) THEN columns
  ELSE IF \E c \in 1..Len(columns) : columns[c] = FieldName(fields, i)
       THEN InsertNames(fields, columns, i + 1)
       ELSE InsertNames(fields, Append(columns, FieldName(fields, i)), i + 1)

RECURSIVE InsertNamesMoveLast(_, _, _)
\* The insertion with a key already present moved to the end.
InsertNamesMoveLast(fields, columns, i) ==
  IF i > Len(fields) THEN columns
  ELSE InsertNamesMoveLast(
         fields,
         Append(SelectSeq(columns, LAMBDA name : name # FieldName(fields, i)),
                FieldName(fields, i)),
         i + 1)

RECURSIVE DiscoverFrom(_, _, _)
DiscoverFrom(tasks, columns, t) ==
  IF t > Len(tasks) THEN columns
  ELSE DiscoverFrom(tasks, InsertNames(CustomFields(tasks[t]), columns, 1), t + 1)

RECURSIVE DiscoverFromMoveLast(_, _, _)
DiscoverFromMoveLast(tasks, columns, t) ==
  IF t > Len(tasks) THEN columns
  ELSE DiscoverFromMoveLast(
         tasks, InsertNamesMoveLast(CustomFields(tasks[t]), columns, 1), t + 1)

\* Column discovery that orders the names by their last occurrence.
DiscoverColumnsLastSeen(tasks, columns) == DiscoverFromMoveLast(tasks, columns, 1)

\* lines 177-179: the keys of custom_field_names after the loops
DiscoverColumns(tasks, columns) == DiscoverFrom(tasks, columns, 1)

\* The column set of the list before carried into the next one.
KeptColumnSet(previous) == previous

\* line 175: custom_field_names = {} for every list
NewColumnSet(previous) == <<>>

\* line 174 and 181: headers
Headers(columns) == <<PyStr("Task Name")>> \o columns

\* sheet.append(row) on the last sheet (the one just created)
AppendToLast(wb, row) ==
  [wb EXCEPT ![Len(wb)] = [@ EXCEPT !.rows = Append(@, row)]]

\* The cleanup with the default sheet never removed.
DefaultSheetKept(wb) == wb

\* lines 189-190: the default sheet goes when another sheet was created
RemoveDefaultSheet(wb) ==
  IF Len(wb) > 1 /\ \E i \in 1..Len(wb) : wb[i].title = DefaultTitle
  THEN SelectSeq(wb, LAMBDA sheet : sheet.title # DefaultTitle)
  ELSE wb

-----------------------------------------------------------------------------
(* The inputs of export_to_excel *)

MaxTasks == 2

\* list_ids: the sheet names of the configured lists, in dict order (lines 210-215)
Configs == {<<"Biuro">>, <<"Biuro", "MP Energy">>}

\* The tasks a list may hold: fields A and B; B and C; no field; C and the name A
\* twice; a date given as a string.
ExportTasks ==
  {Task(PyStr("T1"), <<FieldA, FieldB>>),
   Task(PyStr("T2"), <<FieldB, FieldC>>),
   Task(PyStr("T3"), <<>>),
   Task(PyStr("T4"), <<FieldC, FieldA, FieldA2>>),
   Task(PyStr("T5"), <<FieldC, FieldBDate>>)}

\* What _get_tasks_from_list may return (lines 29-48): [] on a failed request
TaskLists == SeqsUpTo(ExportTasks, MaxTasks)

-----------------------------------------------------------------------------
(* SpecExport: one run of export_to_excel *)

InitExport ==
  /\ list_ids \in Configs
  /\ pc = "loop"
  /\ li = 0
  /\ fetched = <<>>
  /\ ti = 0
  /\ custom_field_names = <<>>
  /\ workbook = NewWorkbook
  /\ save_called = FALSE
  /\ saved = Pending
  /\ NormIdle /\ RowIdle

\* lines 167-171: the list's retrieval gave no task: no sheet, next list
SkipList ==
  /\ pc = "loop" /\ li < Len(list_ids)
  /\ li' = li + 1
  /\ fetched' = Append(fetched, <<>>)
  /\ UNCHANGED <<list_ids, pc, ti, custom_field_names, workbook, save_called,
                 saved, norm_vars, row_vars>>

\* lines 167-182: the retrieval gave tasks: the sheet, the columns, the header
StartSheet ==
  /\ pc = "loop" /\ li < Len(list_ids)
  /\ \E tasks \in TaskLists :
       /\ tasks # <<>>
       /\ li' = li + 1
       /\ fetched' = Append(fetched, tasks)
       /\ custom_field_names' = DiscoverColumns(tasks, NewColumnSet(custom_field_names))
       /\ workbook' = Append(workbook,
                             [title |-> list_ids[li + 1],
                              rows |-> <<Headers(custom_field_names')>>])
  /\ ti' = 0
  /\ pc' = "rows"
  /\ UNCHANGED <<list_ids, save_called, saved, norm_vars, row_vars>>

\* lines 184-186: the next task's row is appended
AppendRow ==
  /\ pc = "rows" /\ ti < Len(fetched[li])
  /\ LET row_data == ProcessTask(fetched[li][ti + 1], custom_field_names)
     IN /\ row_data # Raise
        /\ workbook' = AppendToLast(workbook, row_data.items)
  /\ ti' = ti + 1
  /\ pc' = IF ti + 1 = Len(fetched[li]) THEN "loop" ELSE "rows"
  /\ UNCHANGED <<list_ids, li, fetched, custom_field_names, save_called, saved,
                 norm_vars, row_vars>>

\* lines 185, 197-198: _process_task raises; the except clause of
\* export_to_excel catches it, past the remaining tasks, lists and the save
RowRaises ==
  /\ pc = "rows" /\ ti < Len(fetched[li])
  /\ ProcessTask(fetched[li][ti + 1], custom_field_names) = Raise
  /\ pc' = "failed"
  /\ UNCHANGED <<list_ids, li, fetched, ti, custom_field_names, workbook,
                 save_called, saved, norm_vars, row_vars>>

\* lines 188-195: after the last list, the cleanup and a save that succeeds
SaveOk ==
  /\ pc = "loop" /\ li = Len(list_ids)
  /\ workbook' = RemoveDefaultSheet(workbook)
  /\ save_called' = TRUE
  /\ saved' = [k |-> "workbook", sheets |-> workbook']
  /\ pc' = "saved"
  /\ UNCHANGED <<list_ids, li, fetched, ti, custom_field_names, norm_vars, row_vars>>

\* lines 188-198: the cleanup and a save that raises (the path does not exist)
SaveFails ==
  /\ pc = "loop" /\ li = Len(list_ids)
  /\ workbook' = RemoveDefaultSheet(workbook)
  /\ save_called' = TRUE
  /\ pc' = "failed"
  /\ UNCHANGED <<list_ids, li, fetched, ti, custom_field_names, saved, norm_vars,
                 row_vars>>

\* lines 199-203: finally, workbook.close()
Close ==
  /\ pc \in {"saved", "failed"}
  /\ pc' = "done"
  /\ UNCHANGED <<list_ids, li, fetched, ti, custom_field_names, workbook,
                 save_called, saved, norm_vars, row_vars>>

NextExport ==
  \/ SkipList
  \/ StartSheet
  \/ AppendRow
  \/ RowRaises
  \/ SaveOk
  \/ SaveFails
  \/ Close

SpecExport == InitExport /\ [][NextExport]_vars

-----------------------------------------------------------------------------
(* Claims about export_to_excel, checked under SpecExport *)

\* The places, in configured order, of the lists retrieved so far that returned
\* at least one task.
NonEmpty ==
  SelectSeq([i \in 1..Len(fetched) |-> i], LAMBDA i : fetched[i] # <<>>)

\* The sheets of a workbook other than the default one.
ListSheets(wb) == SelectSeq(wb, LAMBDA sheet : sheet.title # DefaultTitle)

Titles(wb) == [i \in 1..Len(wb) |-> wb[i].title]

RECURSIVE FlatNames(_, _)
\* The names of the custom fields of the tasks from the t-th on, task by task and
\* field by field.
FlatNames(tasks, t) ==
  IF t > Len(tasks) THEN <<>>
  ELSE [i \in 1..Len(CustomFields(tasks[t])) |-> FieldName(CustomFields(tasks[t]), i)]
       \o FlatNames(tasks, t + 1)

FirstPlace(names, name) ==
  CHOOSE i \in 1..Len(names) : names[i] = name /\ \A j \in 1..(i - 1) : names[j] # name

\* C3: column discovery over a list's tasks gives exactly the custom-field names
\* that occur on at least one task, each once, in the order of their first
\* occurrence (tasks in order, fields within a task in order); the sheet's header
\* row is "Task Name" followed by these names in that order.
C3_ColumnsByFirstOccurrence ==
  /\ Len(ListSheets(workbook)) = Len(NonEmpty)
  /\ \A k \in 1..Len(NonEmpty) :
       LET header == ListSheets(workbook)[k].rows[1]
           columns == Tail(header)
           names == FlatNames(fetched[NonEmpty[k]], 1)
       IN /\ header[1] = PyStr("Task Name")
          /\ \A a, b \in 1..Len(columns) : columns[a] = columns[b] => a = b
          /\ {columns[c] : c \in 1..Len(columns)} = {names[n] : n \in 1..Len(names)}
          /\ \A a, b \in 1..Len(columns) :
               a < b => FirstPlace(names, columns[a]) < FirstPlace(names, columns[b])
          /\ (NonEmpty[k] = li /\ pc = "rows") => custom_field_names = columns

\* C3 witness: a list whose tasks carry the fields A, B and then B, C has the
\* header Task Name, A, B, C.
C3_Witness ==
  /\ pc = "rows" /\ Len(fetched[li]) = 2
  /\ FlatNames(fetched[li], 1) = <<PyStr("A"), PyStr("B"), PyStr("B"), PyStr("C")>>
  /\ workbook[Len(workbook)].rows[1]
       = <<PyStr("Task Name"), PyStr("A"), PyStr("B"), PyStr("C")>>

\* The configured sheet names whose retrieval returned at least one task, in the
\* configured order.
NonEmptyNames == [k \in 1..Len(NonEmpty) |-> list_ids[NonEmpty[k]]]

\* C5 as stated: the sheets of the produced workbook are exactly the configured
\* sheet names whose retrieval returned at least one task, in the configured
\* order, and the workbook holds no empty sheet, also when every configured list
\* returns no task.
C5_OnlyNonEmptyLists ==
  saved # Pending
  => /\ Titles(saved.sheets) = NonEmptyNames
     /\ \A i \in 1..Len(saved.sheets) : saved.sheets[i].rows # <<>>

\* C5 amended: a list returning no task produces no sheet and does not stop the
\* lists after it: the sheets created are at any time those of the lists
\* retrieved so far that returned a task, in the configured order, each with its
\* header; the workbook that is saved is saved after every configured list was
\* retrieved and holds exactly these sheets, each with a header and a row per
\* task, when some list returned a task, and only the empty default sheet
\* "Sheet" when none did.
C5_NonEmptyListsOrDefault ==
  /\ Titles(ListSheets(workbook)) = NonEmptyNames
  /\ \A k \in 1..Len(ListSheets(workbook)) : ListSheets(workbook)[k].rows # <<>>
  /\ saved # Pending
     => /\ Len(fetched) = Len(list_ids)
        /\ IF NonEmpty = <<>>
           THEN saved.sheets = <<[title |-> DefaultTitle, rows |-> <<>>]>>
           ELSE /\ Titles(saved.sheets) = NonEmptyNames
                /\ \A k \in 1..Len(saved.sheets) :
                     Len(saved.sheets[k].rows) = 1 + Len(fetched[NonEmpty[k]])

\* C5 witness: the first of two lists returned no task, the second did, and the
\* saved workbook holds the second list's sheet alone.
C5_Witness ==
  /\ saved # Pending /\ Len(list_ids) = 2
  /\ fetched[1] = <<>> /\ fetched[2] # <<>>
  /\ Titles(saved.sheets) = <<list_ids[2]>>

\* a date or time field whose value is a string: not the number the type expects
MalformedField(field) ==
  /\ TypeIn(Get(field, "type", PyNone), DateTypes)
  /\ Get(field, "value", PyNone).k = "str"

\* C8: a malformed field payload on one task never aborts the export: when a
\* retrieved task carries one, export_to_excel still emits the header and every
\* task row of each list, still retrieves every configured list and still reaches
\* the workbook save.
C8_MalformedFieldNeverAborts ==
  (/\ pc = "done"
   /\ \E i \in 1..Len(fetched) : \E t \in 1..Len(fetched[i]) :
        \E f \in 1..Len(CustomFields(fetched[i][t])) :
          MalformedField(CustomFields(fetched[i][t])[f]))
  => /\ save_called
     /\ Len(fetched) = Len(list_ids)
     /\ \A k \in 1..Len(NonEmpty) :
          Len(ListSheets(workbook)[k].rows) = 1 + Len(fetched[NonEmpty[k]])

\* The sheet of the k-th list that returned tasks: its first row is a header
\* made of that list's own field names, and each of the n rows after it is the
\* row of the task of the same place: as long as the header, the task's name
\* first, every other cell "" or the value of a field of that task named as the
\* column.
SheetAligned(sheet, tasks, n) ==
  /\ Len(sheet.rows) = 1 + n
  /\ n <= Len(tasks)
  /\ sheet.rows[1][1] = PyStr("Task Name")
  /\ \A c \in 2..Len(sheet.rows[1]) :
       \E m \in 1..Len(FlatNames(tasks, 1)) : FlatNames(tasks, 1)[m] = sheet.rows[1][c]
  /\ \A j \in 1..n :
       /\ Len(sheet.rows[j + 1]) = Len(sheet.rows[1])
       /\ sheet.rows[j + 1][1] = Get(tasks[j], "name", PyStr(""))
       /\ \A c \in 2..Len(sheet.rows[1]) :
            \/ sheet.rows[j + 1][c] = PyStr("")
            \/ \E f \in 1..Len(CustomFields(tasks[j])) :
                 /\ FieldName(CustomFields(tasks[j]), f) = sheet.rows[1][c]
                 /\ sheet.rows[j + 1][c] = GetFieldValue(CustomFields(tasks[j])[f])

\* C10: in every sheet export_to_excel writes, the header row comes before any
\* data row, the data rows follow in the order of the retrieved tasks, one per
\* task (in a sheet still being filled, one per task processed so far), every
\* data row has as many cells as the header, and the header and the cells come
\* from that list's own tasks only.
C10_SheetsAlignedAndIndependent ==
  /\ Len(ListSheets(workbook)) = Len(NonEmpty)
  /\ \A k \in 1..Len(NonEmpty) :
       SheetAligned(ListSheets(workbook)[k], fetched[NonEmpty[k]],
                    IF NonEmpty[k] = li THEN ti ELSE Len(fetched[NonEmpty[k]]))
  /\ saved # Pending
     => \A k \in 1..Len(NonEmpty) :
          SheetAligned(ListSheets(saved.sheets)[k], fetched[NonEmpty[k]],
                       Len(fetched[NonEmpty[k]]))

\* C10 witness: a saved workbook of two sheets, the first with the columns A and
\* B and one row, the second with the columns B and C and two rows, one of a task
\* without fields.
C10_Witness ==
  /\ saved # Pending /\ Len(saved.sheets) = 2
  /\ saved.sheets[1].rows
       = <<<<PyStr("Task Name"), PyStr("A"), PyStr("B")>>,
           <<PyStr("T1"), PyStr("x"), PyStr("High")>>>>
  /\ saved.sheets[2].rows
       = <<<<PyStr("Task Name"), PyStr("B"), PyStr("C")>>,
           <<PyStr("T2"), PyStr("High"), PyStr("Yes")>>,
           <<PyStr("T3"), PyStr(""), PyStr("")>>>>

====
